---- MODULE Spec2Model ----
(***************************************************************************)
(* A model of the BigQuery table parser in src/main.py: the two regex      *)
(* extractors (parse_query, parse_settings), the two scanners              *)
(* (parse_projects, parse_scheduled_queries), the startup credential       *)
(* check and the merge loop of __main__.                                   *)
(*                                                                         *)
(* Python strings are TLA+ strings; a character is a string of length 1.   *)
(* A TLA+ string literal cannot hold the backtick (U+0060), so the model's *)
(* strings write the backtick as U+0001, BACKTICK below; U+0001 itself is  *)
(* not in the alphabet of the modelled inputs.  Strings are ASCII: the     *)
(* non-ASCII spaces and line boundaries of Python (U+0085, U+2028, ...)    *)
(* cannot be written in a TLA+ string and are outside the model.           *)
(* Python's None is the value NONE below.                                  *)
(***************************************************************************)
EXTENDS Integers, Sequences, FiniteSets, TLC

VARIABLES
    pc,           \* position of the process in src/main.py
    cred,         \* os.environ.get("GOOGLE_APPLICATION_CREDENTIALS") after load_dotenv()
    args,         \* argparse result: [only_projs, only_queries]
    fs,           \* the files below PROJ_ROOT, in os.walk order
    ignore,       \* the lines of ignore_dirs.txt
    catalog,      \* json.loads(response.stdout): the scheduled-query records
    proj_res,     \* proj_res: dict table -> list of projects (NONE: not assigned yet)
    sq_res,       \* sq_res: dict table -> list of query names (NONE: not assigned yet)
    total_dict,   \* total_dict: its items <<table, record>> in insertion order
    result_yaml,  \* what was written to result.yaml (NONE: nothing written)
    exit_code,    \* the process's exit code (NONE: still running)
    query,        \* argument of a parse_query call: list of lines
    tables,       \* its return value
    settings,     \* argument of a parse_settings call: list of lines
    candidates    \* its return value

vars == <<pc, cred, args, fs, ignore, catalog, proj_res, sq_res,
          total_dict, result_yaml, exit_code, query, tables, settings, candidates>>

NONE == "<None>"

BACKTICK == ""

(***************************************************************************)
(* Python str methods.                                                     *)
(***************************************************************************)
Char(s, i) == IF i >= 1 /\ i <= Len(s) THEN SubSeq(s, i, i) ELSE ""

\* the ASCII control characters that Python counts as space or line boundary,
\* beside \t, \n, \f and \r: U+000B, U+001C, U+001D, U+001E, U+001F
VT == ""
FS == ""
GS == ""
RS == ""
US == ""

\* str.isspace() for the ASCII characters: what strip() removes
Whitespace == {" ", "\t", "\n", VT, "\f", "\r", FS, GS, RS, US}

startswith(s, p) == Len(p) <= Len(s) /\ SubSeq(s, 1, Len(p)) = p

endswith(s, p) == Len(p) <= Len(s) /\ SubSeq(s, Len(s) - Len(p) + 1, Len(s)) = p

strip(s) ==
    LET keep == {i \in 1..Len(s) : Char(s, i) \notin Whitespace}
    IN  IF keep = {} THEN ""
        ELSE LET lo == CHOOSE i \in keep : \A j \in keep : i <= j
                 hi == CHOOSE i \in keep : \A j \in keep : j <= i
             IN  SubSeq(s, lo, hi)

UpperCase == "ABCDEFGHIJKLMNOPQRSTUVWXYZ"
LowerCase == "abcdefghijklmnopqrstuvwxyz"
Digits == "0123456789"

CharsOf(s) == {Char(s, i) : i \in 1..Len(s)}

lower_char(c) ==
    IF c \in CharsOf(UpperCase)
    THEN Char(LowerCase, CHOOSE i \in 1..Len(UpperCase) : Char(UpperCase, i) = c)
    ELSE c

RECURSIVE lower(_)
lower(s) == IF s = "" THEN "" ELSE lower_char(Char(s, 1)) \o lower(SubSeq(s, 2, Len(s)))

\* sep.join(list)
RECURSIVE join(_, _)
join(sep, list) ==
    IF list = <<>> THEN ""
    ELSE IF Len(list) = 1 THEN list[1]
    ELSE list[1] \o sep \o join(sep, Tail(list))

\* s.split(sep) for a one-character sep: always at least one piece
RECURSIVE split_from(_, _, _, _)
split_from(s, sep, start, i) ==
    IF i > Len(s) THEN <<SubSeq(s, start, Len(s))>>
    ELSE IF Char(s, i) = sep
         THEN <<SubSeq(s, start, i - 1)>> \o split_from(s, sep, i + 1, i + 1)
         ELSE split_from(s, sep, start, i + 1)

split(s, sep) == split_from(s, sep, 1, 1)

\* s.splitlines(): breaks at \n, \r, \r\n, U+000B, \f, U+001C, U+001D and U+001E;
\* no empty last line
LineBreaks == {"\n", "\r", VT, "\f", FS, GS, RS}

RECURSIVE splitlines_from(_, _, _)
splitlines_from(s, start, i) ==
    IF i > Len(s) THEN (IF start > Len(s) THEN <<>> ELSE <<SubSeq(s, start, Len(s))>>)
    ELSE IF Char(s, i) \in LineBreaks
         THEN LET next == IF Char(s, i) = "\r" /\ Char(s, i + 1) = "\n" THEN i + 2 ELSE i + 1
              IN  <<SubSeq(s, start, i - 1)>> \o splitlines_from(s, next, next)
         ELSE splitlines_from(s, start, i + 1)

splitlines(s) == splitlines_from(s, 1, 1)

(***************************************************************************)
(* TABLE_REGEX = BACKTICK? ( [a-zA-Z0-9\-_]+ \. [a-zA-Z0-9\-_]+ \.         *)
(*               [a-zA-Z0-9\-_]+ ) BACKTICK?                               *)
(*                                                                         *)
(* The character class holds neither "." nor the backtick, so a greedy     *)
(* segment                                                                 *)
(* [..]+ always ends at the end of the maximal run of class characters:    *)
(* backtracking to a shorter run would need "." (or the end of the         *)
(* pattern's optional backtick) at a class character and can only fail or *)
(* give an alternative that the greedy one precedes.  A match attempt at   *)
(* one position is therefore a single left-to-right pass.                  *)
(***************************************************************************)
SegmentChars == CharsOf(LowerCase) \cup CharsOf(UpperCase) \cup CharsOf(Digits) \cup {"-", "_"}

\* [a-zA-Z0-9\-_]+ from position i: the position after the run (i: no character matched)
RECURSIVE SegmentEnd(_, _)
SegmentEnd(s, i) == IF Char(s, i) \in SegmentChars THEN SegmentEnd(s, i + 1) ELSE i

NoMatch == [ok |-> FALSE, group |-> "", end |-> 0]

\* The three dotted segments from position i: group 1 of TABLE_REGEX
ThreeSegments(s, i) ==
    LET e1 == SegmentEnd(s, i)
        e2 == SegmentEnd(s, e1 + 1)
        e3 == SegmentEnd(s, e2 + 1)
    IN  IF e1 > i /\ Char(s, e1) = "." /\ e2 > e1 + 1 /\ Char(s, e2) = "." /\ e3 > e2 + 1
        THEN [ok |-> TRUE, group |-> SubSeq(s, i, e3 - 1), end |-> e3]
        ELSE NoMatch

\* TABLE_REGEX with the parentheses around the leading backtick as well
TABLE_REGEX_tick_in_group(s, i) ==
    LET m == ThreeSegments(s, IF Char(s, i) = BACKTICK THEN i + 1 ELSE i)
    IN  IF m.ok
        THEN [m EXCEPT !.group = SubSeq(s, i, m.end - 1),
                       !.end = IF Char(s, m.end) = BACKTICK THEN m.end + 1 ELSE m.end]
        ELSE NoMatch

\* re.match(TABLE_REGEX, s, pos=i): the optional backticks are taken when present
\* and are outside the group
TABLE_REGEX(s, i) ==
    LET m == ThreeSegments(s, IF Char(s, i) = BACKTICK THEN i + 1 ELSE i)
    IN  IF m.ok
        THEN [m EXCEPT !.end = IF Char(s, m.end) = BACKTICK THEN m.end + 1 ELSE m.end]
        ELSE NoMatch

\* re.findall(TABLE_REGEX, s): leftmost matches, each scan resuming where the last
\* match ended; one group, so the list of group 1
RECURSIVE findall_tables(_, _)
findall_tables(s, i) ==
    IF i > Len(s) THEN <<>>
    ELSE LET m == TABLE_REGEX(s, i)
         IN  IF m.ok THEN <<m.group>> \o findall_tables(s, m.end)
             ELSE findall_tables(s, i + 1)

(***************************************************************************)
(* parse_query: the pattern (FROM|from|JOIN|join){1}, a space, TABLE_REGEX *)
(***************************************************************************)
Keywords == <<"FROM", "from", "JOIN", "join">>

\* the keyword group matched without regard to case (re.IGNORECASE)
KeywordAt_ignorecase(s, i) ==
    IF i + 3 <= Len(s) /\ lower(SubSeq(s, i, i + 3)) \in {"from", "join"}
    THEN SubSeq(s, i, i + 3) ELSE ""

\* (FROM|from|JOIN|join){1} at position i: the alternative that matches, or ""
KeywordAt(s, i) ==
    LET hits == {k \in 1..Len(Keywords) : SubSeq(s, i, i + Len(Keywords[k]) - 1) = Keywords[k]}
    IN  IF i + 3 > Len(s) \/ hits = {} THEN ""
        ELSE Keywords[CHOOSE k \in hits : \A h \in hits : k <= h]

\* the literal after the keyword group: one space
KeywordGap(s, i) == IF Char(s, i) = " " THEN i + 1 ELSE 0

\* one match attempt of the whole pattern at position i
QueryPatternAt(s, i) ==
    LET kw  == KeywordAt(s, i)
        gap == KeywordGap(s, i + Len(kw))
    IN  IF kw = "" \/ gap = 0 THEN NoMatch
        ELSE LET m == TABLE_REGEX(s, gap)
             IN  IF m.ok THEN [ok |-> TRUE, group |-> <<kw, m.group>>, end |-> m.end]
                 ELSE NoMatch

\* re.findall(pattern, string): two groups, so a list of (keyword, table) tuples
RECURSIVE findall_query(_, _)
findall_query(s, i) ==
    IF i > Len(s) THEN <<>>
    ELSE LET m == QueryPatternAt(s, i)
         IN  IF m.ok THEN <<m.group>> \o findall_query(s, m.end)
             ELSE findall_query(s, i + 1)

\* the comment marker of parse_settings in place of the SQL one
is_sql_comment_hash(line) == startswith(line, "#")

\* line.startswith('--') on a stripped line
is_sql_comment(line) == startswith(line, "--")

\* ' '.join([line for line in query_lines if line and not line.startswith('--')])
cleaned_query(q) ==
    LET query_lines == [i \in 1..Len(q) |-> strip(q[i])]
        kept(line)  == line # "" /\ ~is_sql_comment(line)
    IN  join(" ", SelectSeq(query_lines, kept))

parse_query(q) ==
    LET matches == findall_query(cleaned_query(q), 1)
    IN  {matches[i][2] : i \in 1..Len(matches)}

(***************************************************************************)
(* parse_settings                                                          *)
(***************************************************************************)
\* re.search(needle, s) for a literal needle
contains(s, needle) ==
    \E i \in 1..Len(s) : i + Len(needle) - 1 <= Len(s) /\ SubSeq(s, i, i + Len(needle) - 1) = needle

\* re.search(r'bq|bigquery|table', line.lower())
has_keyword(line) ==
    LET l == lower(line)
    IN  contains(l, "bq") \/ contains(l, "bigquery") \/ contains(l, "table")

\* not line.startswith("#") and re.search(...)
is_candidate_line(line) == ~startswith(line, "#") /\ has_keyword(line)

\* the filter without the test for module paths
is_table_candidate_any(candidate) == candidate # ""

\* candidate and not candidate.startswith(('os.', 'sys.'))
is_table_candidate(candidate) ==
    candidate # "" /\ ~startswith(candidate, "os.") /\ ~startswith(candidate, "sys.")

RECURSIVE flatten(_)
flatten(lists) == IF lists = <<>> THEN <<>> ELSE Head(lists) \o flatten(Tail(lists))

\* [line.strip().lower() for line in settings if line.strip()]
settings_lines(st) ==
    LET nonblank(line) == strip(line) # ""
        lines == SelectSeq(st, nonblank)
    IN  [i \in 1..Len(lines) |-> lower(strip(lines[i]))]

parse_settings(st) ==
    LET lines == SelectSeq(settings_lines(st), is_candidate_line)
        found == [i \in 1..Len(lines) |-> findall_tables(lines[i], 1)]
    IN  SelectSeq(flatten(found), is_table_candidate)

(***************************************************************************)
(* Python's ordering of str (by code point) and sorted().                  *)
(***************************************************************************)
AsciiPrintable ==
    " !\"#$%&'()*+,-./0123456789:;<=>?@ABCDEFGHIJKLMNOPQRSTUVWXYZ[\\]^_"
        \o BACKTICK \o "abcdefghijklmnopqrstuvwxyz{|}~"

\* ord(c)
ord(c) ==
    IF c = "\t" THEN 9 ELSE IF c = "\n" THEN 10 ELSE IF c = "\r" THEN 13
    ELSE 31 + (CHOOSE i \in 1..Len(AsciiPrintable) : Char(AsciiPrintable, i) = c)

\* a < b for two str
RECURSIVE str_lt(_, _)
str_lt(a, b) ==
    IF b = "" THEN FALSE
    ELSE IF a = "" THEN TRUE
    ELSE IF Char(a, 1) = Char(b, 1) THEN str_lt(SubSeq(a, 2, Len(a)), SubSeq(b, 2, Len(b)))
    ELSE ord(Char(a, 1)) < ord(Char(b, 1))

\* insertion of x into a sorted list, after the elements not greater than it
RECURSIVE insort(_, _)
insort(list, x) ==
    IF list = <<>> THEN <<x>>
    ELSE IF str_lt(x, Head(list)) THEN <<x>> \o list
    ELSE <<Head(list)>> \o insort(Tail(list), x)

\* sorted(list)
RECURSIVE sorted(_)
sorted(list) == IF list = <<>> THEN <<>> ELSE insort(sorted(SubSeq(list, 1, Len(list) - 1)), list[Len(list)])

\* list(a_set): the elements in some order
RECURSIVE list_of(_)
list_of(S) == IF S = {} THEN <<>> ELSE LET x == CHOOSE x \in S : TRUE IN <<x>> \o list_of(S \ {x})

Range(list) == {list[i] : i \in 1..Len(list)}

\* A dict is a function from its keys; dict() is the empty one
EmptyDict == <<>>

(***************************************************************************)
(* parse_scheduled_queries                                                 *)
(* A catalog record is [displayName, disabled, query]: disabled is the     *)
(* truth value of .get('disabled') (false when the key is missing), query  *)
(* is params.get('query'), NONE when params has no 'query'.                *)
(***************************************************************************)
\* the display name without the decoration
query_name_plain(scheduled_query) == scheduled_query.displayName

\* scheduled_query.get('displayName') + (' (disabled)' if scheduled_query.get('disabled') else '')
query_name(scheduled_query) ==
    scheduled_query.displayName \o (IF scheduled_query.disabled THEN " (disabled)" ELSE "")

\* table_dict[tablename].append(query_name) on a defaultdict(list)
append_name(table_dict, tablename, name) ==
    (tablename :> Append(IF tablename \in DOMAIN table_dict THEN table_dict[tablename] ELSE <<>>, name))
        @@ table_dict

\* for tablename in a_set: table_dict[tablename].append(query_name)
RECURSIVE append_each(_, _, _)
append_each(table_dict, found, name) ==
    IF found = {} THEN table_dict
    ELSE LET tablename == CHOOSE t \in found : TRUE
         IN  append_each(append_name(table_dict, tablename, name), found \ {tablename}, name)

\* the body of the loop for one record
append_query(table_dict, scheduled_query) ==
    append_each(table_dict, parse_query(split(scheduled_query.query, "\n")), query_name(scheduled_query))

\* the loop over the collection from record i on; query.split raises AttributeError
\* on None
RECURSIVE scan_records(_, _, _)
scan_records(records, i, table_dict) ==
    IF i > Len(records) THEN [raised |-> FALSE, table_dict |-> table_dict]
    ELSE IF records[i].query = NONE THEN [raised |-> TRUE, table_dict |-> table_dict]
    ELSE scan_records(records, i + 1, append_query(table_dict, records[i]))

parse_scheduled_queries(records) == scan_records(records, 1, EmptyDict)

(***************************************************************************)
(* parse_projects                                                          *)
(* A file is [top, dir, name, content]: top is the entry of PROJ_ROOT it   *)
(* lies under, dir the path from there to its directory.                   *)
(***************************************************************************)
\* os.listdir(proj_root): the top-level entries, in listing order
RECURSIVE os_listdir(_)
os_listdir(files) ==
    IF files = <<>> THEN <<>>
    ELSE LET rest == os_listdir(SubSeq(files, 1, Len(files) - 1))
             top  == files[Len(files)].top
         IN  IF top \in Range(rest) THEN rest ELSE Append(rest, top)

\* the listing without the exclusion
project_dirs_all(files, ign) == os_listdir(files)

\* [proj for proj in os.listdir(proj_root) if proj not in ignore]
project_dirs(files, ign) ==
    LET included(proj) == proj \notin Range(ign)
    IN  SelectSeq(os_listdir(files), included)

\* the files os.walk(os.path.join(proj_root, proj)) yields, at any depth
os_walk(files, proj) ==
    LET below(f) == f.top = proj
    IN  SelectSeq(files, below)

\* filename.endswith('.sql') or filename.endswith('.bigquery')
is_query_file(filename) == endswith(filename, ".sql") \/ endswith(filename, ".bigquery")

\* filename == 'settings.py'
is_settings_file(filename) == filename = "settings.py"

\* read_file(root, filename, parser_func): the parser on read().splitlines()
read_file_query(f) == list_of(parse_query(splitlines(f.content)))
read_file_settings(f) == parse_settings(splitlines(f.content))

\* proj_tables of one file, as the set the last loop runs over
proj_tables(f) ==
    Range((IF is_query_file(f.name) THEN read_file_query(f) ELSE <<>>)
          \o (IF is_settings_file(f.name) THEN read_file_settings(f) ELSE <<>>))

\* proj_table_dict[tablename].add(proj) on a defaultdict(set)
add_to(proj_table_dict, tablename, proj) ==
    (tablename :> ((IF tablename \in DOMAIN proj_table_dict THEN proj_table_dict[tablename] ELSE {})
                   \cup {proj}))
        @@ proj_table_dict

\* for tablename in set(proj_tables): proj_table_dict[tablename].add(proj)
RECURSIVE add_project(_, _, _)
add_project(proj_table_dict, found, proj) ==
    IF found = {} THEN proj_table_dict
    ELSE LET tablename == CHOOSE t \in found : TRUE
         IN  add_project(add_to(proj_table_dict, tablename, proj), found \ {tablename}, proj)

RECURSIVE walk_files(_, _, _)
walk_files(walk, proj, proj_table_dict) ==
    IF walk = <<>> THEN proj_table_dict
    ELSE walk_files(Tail(walk), proj, add_project(proj_table_dict, proj_tables(Head(walk)), proj))

RECURSIVE walk_projects(_, _, _)
walk_projects(files, dirs, proj_table_dict) ==
    IF dirs = <<>> THEN proj_table_dict
    ELSE walk_projects(files, Tail(dirs),
                       walk_files(os_walk(files, Head(dirs)), Head(dirs), proj_table_dict))

\* proj_table_dict at the return statement: table -> set of projects
parse_projects(files, ign) == walk_projects(files, project_dirs(files, ign), EmptyDict)

\* the lists list(a_set) can give: every order of the set's elements
Orders(S) == {l \in [1..Cardinality(S) -> S] : Range(l) = S}

\* {table_name: list(proj_lst) for ...}: the dicts the return statement can give
ListedDicts(d) ==
    {r \in [DOMAIN d -> UNION {Orders(d[t]) : t \in DOMAIN d}] : \A t \in DOMAIN d : r[t] \in Orders(d[t])}

(***************************************************************************)
(* __main__: the merge loop and the dump                                   *)
(***************************************************************************)
\* total_tables itself: neither set() nor sorted()
sorted_tables_raw(p_res, s_res) == list_of(DOMAIN p_res) \o list_of(DOMAIN s_res)

\* sorted(set(total_tables)) with total_tables = list(proj_res.keys()) + list(sq_res.keys())
sorted_tables(p_res, s_res) == sorted(list_of(Range(list_of(DOMAIN p_res) \o list_of(DOMAIN s_res))))

\* both entries for every table, with .get(table, []) in place of the two ifs
table_record_both(p_res, s_res, table) ==
    [k \in {"queries", "code"} |->
        IF k = "queries" THEN sorted(IF table \in DOMAIN s_res THEN s_res[table] ELSE <<>>)
        ELSE sorted(IF table \in DOMAIN p_res THEN p_res[table] ELSE <<>>)]

\* total_dict[table] after the two ifs
table_record(p_res, s_res, table) ==
    [k \in (IF table \in DOMAIN s_res THEN {"queries"} ELSE {})
           \cup (IF table \in DOMAIN p_res THEN {"code"} ELSE {}) |->
        IF k = "queries" THEN sorted(s_res[table]) ELSE sorted(p_res[table])]

\* total_dict after the loop: its items in insertion order
merge(p_res, s_res) ==
    LET keys == sorted_tables(p_res, s_res)
    IN  [i \in 1..Len(keys) |-> <<keys[i], table_record(p_res, s_res, keys[i])>>]

\* yaml.dump(total_dict): the mapping with its keys sorted (sort_keys is the default)
RECURSIVE insort_item(_, _)
insort_item(items, x) ==
    IF items = <<>> THEN <<x>>
    ELSE IF str_lt(x[1], Head(items)[1]) THEN <<x>> \o items
    ELSE <<Head(items)>> \o insort_item(Tail(items), x)

RECURSIVE yaml_dump(_)
yaml_dump(items) ==
    IF items = <<>> THEN <<>>
    ELSE insort_item(yaml_dump(SubSeq(items, 1, Len(items) - 1)), items[Len(items)])

(***************************************************************************)
(* The process.  pc:                                                       *)
(*   "startup"   before the credential check of lines 14-22                *)
(*   "parse_args" at line 182, "projects" at line 185, "queries" at 186,   *)
(*   "merge" at line 188, "write" at line 202                              *)
(*   "done"      after the report was written                              *)
(*   "exited"    after sys.exit(1)                                         *)
(*   "raised"    after an uncaught exception                               *)
(* and, for a single call of an extractor, "parse_query" or                *)
(* "parse_settings" before it and "query_returned" or "settings_returned"  *)
(* after it.                                                               *)
(***************************************************************************)
\* the test "is not None" in place of the truth value
credentials_not_none(c) == c # NONE

\* the truth value of os.environ.get("GOOGLE_APPLICATION_CREDENTIALS")
credentials_present(c) == c # NONE /\ c # ""

CheckCredentials ==
    /\ pc = "startup"
    /\ credentials_present(cred)
    /\ pc' = "parse_args"
    /\ UNCHANGED <<cred, args, fs, ignore, catalog, proj_res, sq_res, total_dict,
                   result_yaml, exit_code, query, tables, settings, candidates>>

\* logging.fatal(...); sys.exit(1)
MissingCredentials ==
    /\ pc = "startup"
    /\ ~credentials_present(cred)
    /\ pc' = "exited"
    /\ exit_code' = 1
    /\ UNCHANGED <<cred, args, fs, ignore, catalog, proj_res, sq_res, total_dict,
                   result_yaml, query, tables, settings, candidates>>

\* parser.parse_args() ends the process itself: -h/--help prints the help and
\* exits with 0, an unknown or extra argument exits with 2; args is not assigned
ParseArgsExit ==
    /\ pc = "parse_args"
    /\ \E code \in {0, 2} : exit_code' = code
    /\ pc' = "exited"
    /\ UNCHANGED <<cred, args, fs, ignore, catalog, proj_res, sq_res, total_dict,
                   result_yaml, query, tables, settings, candidates>>

\* args = parser.parse_args(): the two store_true flags
ParseArgs ==
    /\ pc = "parse_args"
    /\ \E p \in BOOLEAN, q \in BOOLEAN : args' = [only_projs |-> p, only_queries |-> q]
    /\ pc' = "projects"
    /\ UNCHANGED <<cred, fs, ignore, catalog, proj_res, sq_res, total_dict,
                   result_yaml, exit_code, query, tables, settings, candidates>>

\* proj_res = parse_projects() if not args.only_queries
RunParseProjects ==
    /\ pc = "projects"
    /\ ~args.only_queries
    /\ proj_res' \in ListedDicts(parse_projects(fs, ignore))
    /\ pc' = "queries"
    /\ UNCHANGED <<cred, args, fs, ignore, catalog, sq_res, total_dict,
                   result_yaml, exit_code, query, tables, settings, candidates>>

\* proj_res = dict() otherwise
SkipProjects ==
    /\ pc = "projects"
    /\ args.only_queries
    /\ proj_res' = EmptyDict
    /\ pc' = "queries"
    /\ UNCHANGED <<cred, args, fs, ignore, catalog, sq_res, total_dict,
                   result_yaml, exit_code, query, tables, settings, candidates>>

\* sq_res = parse_scheduled_queries() if not args.only_projs, when it returns
RunParseScheduledQueries ==
    /\ pc = "queries"
    /\ ~args.only_projs
    /\ ~parse_scheduled_queries(catalog).raised
    /\ sq_res' = parse_scheduled_queries(catalog).table_dict
    /\ pc' = "merge"
    /\ UNCHANGED <<cred, args, fs, ignore, catalog, proj_res, total_dict,
                   result_yaml, exit_code, query, tables, settings, candidates>>

\* the same call when query.split raises: the exception is caught nowhere, the
\* interpreter prints the traceback and exits with code 1
ScheduledQueriesRaise ==
    /\ pc = "queries"
    /\ ~args.only_projs
    /\ parse_scheduled_queries(catalog).raised
    /\ pc' = "raised"
    /\ exit_code' = 1
    /\ UNCHANGED <<cred, args, fs, ignore, catalog, proj_res, sq_res, total_dict,
                   result_yaml, query, tables, settings, candidates>>

\* sq_res = dict() otherwise
SkipScheduledQueries ==
    /\ pc = "queries"
    /\ args.only_projs
    /\ sq_res' = EmptyDict
    /\ pc' = "merge"
    /\ UNCHANGED <<cred, args, fs, ignore, catalog, proj_res, total_dict,
                   result_yaml, exit_code, query, tables, settings, candidates>>

\* lines 188-200
Merge ==
    /\ pc = "merge"
    /\ total_dict' = merge(proj_res, sq_res)
    /\ pc' = "write"
    /\ UNCHANGED <<cred, args, fs, ignore, catalog, proj_res, sq_res,
                   result_yaml, exit_code, query, tables, settings, candidates>>

\* lines 202-203, then the normal end of the interpreter
WriteResult ==
    /\ pc = "write"
    /\ result_yaml' = yaml_dump(total_dict)
    /\ pc' = "done"
    /\ exit_code' = 0
    /\ UNCHANGED <<cred, args, fs, ignore, catalog, proj_res, sq_res, total_dict,
                   query, tables, settings, candidates>>

\* a call parse_query(query)
CallParseQuery ==
    /\ pc = "parse_query"
    /\ tables' = parse_query(query)
    /\ pc' = "query_returned"
    /\ UNCHANGED <<cred, args, fs, ignore, catalog, proj_res, sq_res, total_dict,
                   result_yaml, exit_code, query, settings, candidates>>

\* a call parse_settings(settings)
CallParseSettings ==
    /\ pc = "parse_settings"
    /\ candidates' = parse_settings(settings)
    /\ pc' = "settings_returned"
    /\ UNCHANGED <<cred, args, fs, ignore, catalog, proj_res, sq_res, total_dict,
                   result_yaml, exit_code, query, tables, settings>>

(***************************************************************************)
(* Inputs.  A text is a concatenation of at most n tokens.                 *)
(***************************************************************************)
RECURSIVE Texts(_, _)
Texts(tokens, n) ==
    IF n = 0 THEN {""}
    ELSE LET shorter == Texts(tokens, n - 1)
         IN  shorter \cup {t \o tok : t \in shorter, tok \in tokens}

RECURSIVE SeqsUpTo(_, _)
SeqsUpTo(S, n) ==
    IF n = 0 THEN {<<>>}
    ELSE LET shorter == SeqsUpTo(S, n - 1)
         IN  shorter \cup {Append(q, x) : q \in shorter, x \in S}

MaxQueryTokens == 4
MaxSettingsTokens == 3
MaxRecords == 2
MaxFiles == 2
MaxKeys == 2

QueryTokens ==
    {"FROM", "from", "From", "join", " ", BACKTICK, "(", "--", "\n",
     "p.a.b", ".", "JOIN q.c.d", "from r.e.f", VT}

SettingsTokens ==
    {"TABLE = ", "\"proj.ds.tbl\"", "#", " ", "os.path.join(x)", "sys.a.b", "bq",
     "Proj.DS.Tbl", "\n", "x = ", ".", US}

NoArgs == [only_projs |-> FALSE, only_queries |-> FALSE]

\* query bodies of catalog records; NONE: params without 'query'
QueryBodies ==
    {NONE,
     "SELECT 1",
     "SELECT * FROM p.d.t1 a\nJOIN " \o BACKTICK \o "p.d.t1" \o BACKTICK \o " b",
     "-- FROM p.d.t3\nfrom p.d.t1 JOIN p.d.t2"}

RecordKinds ==
    [displayName : {"job1", "job2"}, disabled : BOOLEAN, query : QueryBodies]

SqlContent == "SELECT *\nFROM " \o BACKTICK \o "p.d.t1" \o BACKTICK \o " a\n  JOIN p.d.t3 b ON a.k = b.k"
ConfContent == "# BQ_TABLE = \"p.d.t1\"\nBQ_TABLE = \"p.d.T2\"\nLOG = os.path.join(bq)"

FileKinds ==
    {[top |-> t, dir |-> d[1], name |-> d[2], content |-> c] :
        t \in {"proj1", "proj2", "venv"},
        d \in {<<"", "query.sql">>, <<"src/etl", "load.bigquery">>,
               <<"conf", "settings.py">>, <<"", "notes.sql.txt">>},
        c \in {SqlContent, ConfContent}}

IgnoreLists == {<<>>, <<"venv">>, <<"venv", "proj2">>}

MergeTables == {"p.d.t1", "p.d.t2", "P.d.t1", "p-1.d.t"}
ProjLists == {<<"proj1">>, <<"proj2", "proj1">>, <<"proj1", "proj2">>}
QueryLists == {<<"job1">>, <<"job2", "job1 (disabled)">>, <<"job1", "job1">>}

DictsUpTo(keys, values, n) ==
    UNION {[K -> values] : K \in {K \in SUBSET keys : Cardinality(K) <= n}}

\* the end-to-end scenario of the specification, and variations of it
ScenarioFile ==
    [top |-> "proj1", dir |-> "", name |-> "query.sql",
     content |-> "SELECT * FROM " \o BACKTICK \o "p.d.t1" \o BACKTICK]
ScenarioRecord == [displayName |-> "job1", disabled |-> TRUE, query |-> "JOIN p.d.t2"]

MainTrees ==
    {<<>>, <<ScenarioFile>>,
     <<ScenarioFile, [top |-> "proj2", dir |-> "conf", name |-> "settings.py", content |-> ConfContent]>>}
MainCatalogs ==
    {<<>>, <<ScenarioRecord>>,
     <<ScenarioRecord, [displayName |-> "job2", disabled |-> FALSE, query |-> NONE]>>}

(***************************************************************************)
(* Specifications                                                          *)
(***************************************************************************)
\* The process from its start
Init ==
    /\ pc = "startup"
    /\ cred \in {NONE, "", "/secrets/key.json"}
    /\ args = NONE
    /\ fs \in MainTrees
    /\ ignore \in {<<>>, <<"proj2">>}
    /\ catalog \in MainCatalogs
    /\ proj_res = NONE /\ sq_res = NONE /\ total_dict = NONE
    /\ result_yaml = NONE /\ exit_code = NONE
    /\ query = NONE /\ tables = NONE /\ settings = NONE /\ candidates = NONE

Next ==
    \/ CheckCredentials
    \/ MissingCredentials
    \/ ParseArgs
    \/ ParseArgsExit
    \/ RunParseProjects
    \/ SkipProjects
    \/ RunParseScheduledQueries
    \/ ScheduledQueriesRaise
    \/ SkipScheduledQueries
    \/ Merge
    \/ WriteResult

Spec == Init /\ [][Next]_vars

\* parse_query on every text of at most MaxQueryTokens tokens
InitQuery ==
    /\ pc = "parse_query"
    /\ query \in {split(t, "\n") : t \in Texts(QueryTokens, MaxQueryTokens)}
    /\ tables = NONE
    /\ cred = NONE /\ args = NONE /\ fs = NONE /\ ignore = NONE /\ catalog = NONE
    /\ proj_res = NONE /\ sq_res = NONE /\ total_dict = NONE
    /\ result_yaml = NONE /\ exit_code = NONE
    /\ settings = NONE /\ candidates = NONE

NextQuery == CallParseQuery

SpecQuery == InitQuery /\ [][NextQuery]_vars

\* parse_settings on every text of at most MaxSettingsTokens tokens
InitSettings ==
    /\ pc = "parse_settings"
    /\ settings \in {splitlines(t) : t \in Texts(SettingsTokens, MaxSettingsTokens)}
    /\ candidates = NONE
    /\ cred = NONE /\ args = NONE /\ fs = NONE /\ ignore = NONE /\ catalog = NONE
    /\ proj_res = NONE /\ sq_res = NONE /\ total_dict = NONE
    /\ result_yaml = NONE /\ exit_code = NONE
    /\ query = NONE /\ tables = NONE

NextSettings == CallParseSettings

SpecSettings == InitSettings /\ [][NextSettings]_vars

\* the scheduled-query scan on every catalog of at most MaxRecords records
InitScheduled ==
    /\ pc = "queries"
    /\ args = NoArgs
    /\ catalog \in SeqsUpTo(RecordKinds, MaxRecords)
    /\ sq_res = NONE
    /\ cred = NONE /\ fs = NONE /\ ignore = NONE
    /\ proj_res = NONE /\ total_dict = NONE
    /\ result_yaml = NONE /\ exit_code = NONE
    /\ query = NONE /\ tables = NONE /\ settings = NONE /\ candidates = NONE

NextScheduled == RunParseScheduledQueries \/ ScheduledQueriesRaise

SpecScheduled == InitScheduled /\ [][NextScheduled]_vars

\* the project scan on every tree of at most MaxFiles files
InitProjects ==
    /\ pc = "projects"
    /\ args = NoArgs
    /\ fs \in SeqsUpTo(FileKinds, MaxFiles)
    /\ ignore \in IgnoreLists
    /\ proj_res = NONE
    /\ cred = NONE /\ catalog = NONE
    /\ sq_res = NONE /\ total_dict = NONE
    /\ result_yaml = NONE /\ exit_code = NONE
    /\ query = NONE /\ tables = NONE /\ settings = NONE /\ candidates = NONE

NextProjects == RunParseProjects

SpecProjects == InitProjects /\ [][NextProjects]_vars

\* the merge on every pair of indexes of at most MaxKeys tables each
InitMerge ==
    /\ pc = "merge"
    /\ proj_res \in DictsUpTo(MergeTables, ProjLists, MaxKeys)
    /\ sq_res \in DictsUpTo(MergeTables, QueryLists, MaxKeys)
    /\ total_dict = NONE
    /\ result_yaml = NONE /\ exit_code = NONE
    /\ cred = NONE /\ args = NONE /\ fs = NONE /\ ignore = NONE /\ catalog = NONE
    /\ query = NONE /\ tables = NONE /\ settings = NONE /\ candidates = NONE

NextMerge == Merge \/ WriteResult

SpecMerge == InitMerge /\ [][NextMerge]_vars

(***************************************************************************)
(* Properties                                                              *)
(***************************************************************************)
\* the TableName grammar of the specification, stated without the regex: three
\* non-empty segments of letters, digits, "-" and "_" between two dots
NameAlphabet ==
    CharsOf("abcdefghijklmnopqrstuvwxyzABCDEFGHIJKLMNOPQRSTUVWXYZ0123456789-_")

WellFormedName(n) ==
    LET parts == split(n, ".")
    IN  /\ Len(parts) = 3
        /\ \A k \in 1..3 : parts[k] # "" /\ CharsOf(parts[k]) \subseteq NameAlphabet

\* position i of text holds a clause keyword and one space
KeywordAndSpace(text, i) ==
    /\ i + 4 <= Len(text)
    /\ SubSeq(text, i, i + 3) \in {"FROM", "from", "JOIN", "join"}
    /\ Char(text, i + 4) = " "

\* the places a name can start at after the keyword and space at i: right after
\* the space, or after one backtick
NameStarts(text, i) == {i + 5} \cup (IF Char(text, i + 5) = BACKTICK THEN {i + 6} ELSE {})

\* name stands in text right after a clause keyword, one space and at most one backtick
FollowsKeyword(text, name) ==
    \E i \in 1..Len(text) :
        /\ KeywordAndSpace(text, i)
        /\ \E j \in NameStarts(text, i) :
              /\ j + Len(name) - 1 <= Len(text)
              /\ SubSeq(text, j, j + Len(name) - 1) = name

\* text holds a keyword, one space, at most one backtick and a well-formed name
HasClause(text) ==
    \E i \in 1..Len(text) :
        /\ KeywordAndSpace(text, i)
        /\ \E j \in NameStarts(text, i) :
              \E e \in j..Len(text) : WellFormedName(SubSeq(text, j, e))

\* C4: the clause-gated extractor returns a name only where it directly follows one of
\* the literals FROM, from, JOIN, join and exactly one space (and at most one backtick)
\* in the joined text, and returns nothing exactly when the joined text has no such
\* place; FROM p.a.b and from p.a.b yield p.a.b, while From p.a.b, a keyword followed
\* by two spaces and a keyword followed by "(" yield nothing.
C4_ClauseGated ==
    pc = "query_returned" =>
        LET text == cleaned_query(query)
        IN  /\ \A t \in tables : FollowsKeyword(text, t)
            /\ (tables = {}) <=> ~HasClause(text)
            /\ query \in {<<"FROM p.a.b">>, <<"from p.a.b">>, <<"join p.a.b">>,
                          <<"FROM " \o BACKTICK \o "p.a.b">>}
                  => tables = {"p.a.b"}
            /\ query = <<"JOIN q.c.d">> => tables = {"q.c.d"}
            /\ query \in {<<"From p.a.b">>, <<"FROM  p.a.b">>, <<"from  p.a.b">>,
                          <<"FROM (p.a.b">>, <<"join(p.a.b">>, <<"FROMp.a.b">>}
                  => tables = {}

C4_Witness ==
    /\ pc = "query_returned"
    /\ query = <<"join " \o BACKTICK \o "p.a.b">>
    /\ tables = {"p.a.b"}

\* the list without its k-th element
WithoutLine(list, k) == SubSeq(list, 1, k - 1) \o SubSeq(list, k + 1, Len(list))

IsCommentLine(line) == LET l == strip(line) IN Len(l) >= 2 /\ SubSeq(l, 1, 2) = "--"

\* a set of names serialised as comment lines, one clause each
CommentLines(names) == LET l == list_of(names) IN [i \in 1..Len(l) |-> "-- FROM " \o l[i]]

\* C5: a line whose first non-whitespace characters are "--" contributes no match: the
\* extracted set is that of the text without the line, and appending the extracted
\* names as comment lines leaves the extracted set unchanged.
C5_CommentLinesIgnored ==
    pc = "query_returned" =>
        /\ \A k \in 1..Len(query) :
              IsCommentLine(query[k]) => parse_query(WithoutLine(query, k)) = tables
        /\ parse_query(query \o CommentLines(tables)) = tables

C5_Witness ==
    /\ pc = "query_returned"
    /\ query = <<"--JOIN q.c.d", "from r.e.f">>
    /\ tables = {"r.e.f"}

\* C10: every name the clause-gated extractor returns is well formed (three non-empty
\* dot-separated segments of letters, digits, "-" and "_", no backtick), and a text
\* without a match gives the empty set.
C10_WellFormedNames ==
    pc = "query_returned" =>
        /\ \A t \in tables : WellFormedName(t) /\ BACKTICK \notin CharsOf(t)
        /\ ~HasClause(cleaned_query(query)) => tables = {}

C10_Witness ==
    /\ pc = "query_returned"
    /\ query = <<"JOIN q.c.d.p.a.b">>
    /\ tables = {"q.c.d"}

\* a line the settings extractor reads: stripped and lower-cased it does not start
\* with "#" and holds bq, bigquery or table
KeptLine(line) ==
    LET l == lower(strip(line))
    IN  /\ l # ""
        /\ Char(l, 1) # "#"
        /\ contains(l, "bq") \/ contains(l, "bigquery") \/ contains(l, "table")

\* C8: the settings extractor returns a candidate only from a line that, stripped and
\* lower-cased, does not start with "#" and holds bq, bigquery or table, and never one
\* that begins with os. or sys.; TABLE = "proj.ds.tbl" yields proj.ds.tbl, a "#" line
\* or a line without keyword yields nothing, os.path.join on a keyword line is dropped.
C8_SettingsCandidates ==
    pc = "settings_returned" =>
        /\ \A k \in 1..Len(candidates) :
              LET c == candidates[k]
              IN  /\ ~(Len(c) >= 3 /\ SubSeq(c, 1, 3) = "os.")
                  /\ ~(Len(c) >= 4 /\ SubSeq(c, 1, 4) = "sys.")
                  /\ \E n \in 1..Len(settings) :
                        KeptLine(settings[n]) /\ contains(lower(strip(settings[n])), c)
        /\ (\A n \in 1..Len(settings) : ~KeptLine(settings[n])) => candidates = <<>>
        /\ settings = <<"TABLE = \"proj.ds.tbl\"">> => candidates = <<"proj.ds.tbl">>
        /\ settings \in {<<"#TABLE = \"proj.ds.tbl\"">>, <<"x = \"proj.ds.tbl\"">>,
                         <<"TABLE = os.path.join(x)">>, <<"TABLE = sys.a.b">>}
              => candidates = <<>>

C8_Witness ==
    /\ pc = "settings_returned"
    /\ settings = <<"TABLE = os.path.join(x)\"proj.ds.tbl\"">>
    /\ candidates = <<"proj.ds.tbl">>

\* the keys of the report, in its order
ReportKeys == [i \in 1..Len(total_dict) |-> total_dict[i][1]]

\* Python's order of the table names of MergeTables
AscendingTables == <<"P.d.t1", "p-1.d.t", "p.d.t1", "p.d.t2">>
Rank(t) == CHOOSE i \in 1..Len(AscendingTables) : AscendingTables[i] = t

\* C1: the keys of the report are exactly the keys of the project index and of the
\* scheduled-query index, each once, in ascending string order.
C1_KeysSortedUnion ==
    pc \in {"write", "done"} =>
        /\ Range(ReportKeys) = DOMAIN proj_res \cup DOMAIN sq_res
        /\ \A i \in 1..Len(ReportKeys), j \in 1..Len(ReportKeys) :
              i < j => Rank(ReportKeys[i]) < Rank(ReportKeys[j])

C1_Witness ==
    /\ pc = "done"
    /\ DOMAIN proj_res = {"p.d.t1", "P.d.t1"}
    /\ DOMAIN sq_res = {"p.d.t1", "p-1.d.t"}
    /\ ReportKeys = <<"P.d.t1", "p-1.d.t", "p.d.t1">>

\* list b holds the elements of list a, as often, in ascending order
IsSortedListOf(b, a) ==
    /\ Len(b) = Len(a)
    /\ \A x \in Range(a) \cup Range(b) :
          Cardinality({i \in 1..Len(a) : a[i] = x}) = Cardinality({i \in 1..Len(b) : b[i] = x})
    /\ \A i \in 1..Len(b), j \in 1..Len(b) : i < j => ~str_lt(b[j], b[i])

\* C2: a report record has "queries" iff its table is a key of the scheduled-query
\* index and "code" iff it is a key of the project index, and each entry is the
\* ascending-sorted list of that index's values for the table.
C2_RecordEntries ==
    pc \in {"write", "done"} =>
        \A i \in 1..Len(total_dict) :
            LET t   == total_dict[i][1]
                rec == total_dict[i][2]
            IN  /\ DOMAIN rec \subseteq {"queries", "code"}
                /\ "queries" \in DOMAIN rec <=> t \in DOMAIN sq_res
                /\ "code" \in DOMAIN rec <=> t \in DOMAIN proj_res
                /\ "queries" \in DOMAIN rec => IsSortedListOf(rec["queries"], sq_res[t])
                /\ "code" \in DOMAIN rec => IsSortedListOf(rec["code"], proj_res[t])
                /\ t \in DOMAIN sq_res /\ sq_res[t] = <<"job2", "job1 (disabled)">>
                      => rec["queries"] = <<"job1 (disabled)", "job2">>

C2_Witness ==
    /\ pc = "done"
    /\ Len(total_dict) = 3
    /\ DOMAIN total_dict[1][2] = {"code"}
    /\ total_dict[1][2]["code"] = <<"proj1", "proj2">>
    /\ proj_res[total_dict[1][1]] = <<"proj2", "proj1">>
    /\ DOMAIN total_dict[2][2] = {"queries"}
    /\ total_dict[2][2]["queries"] = <<"job1 (disabled)", "job2">>
    /\ DOMAIN total_dict[3][2] = {"queries", "code"}

\* the catalog without the records that have no query body
WithBody(records) == LET has_body(r) == r.query # NONE IN SelectSeq(records, has_body)

\* C3: a catalog record whose query body is missing is skipped without error: the
\* scan raises nothing, and its result is the one for the catalog without the record.
C3_NullBodySkipped ==
    /\ pc # "raised"
    /\ pc = "merge" => sq_res = parse_scheduled_queries(WithBody(catalog)).table_dict

\* the tables the bodies of QueryBodies reference, as Python's parse_query gives them
ReferencedTables(body) ==
    CASE body = "SELECT 1" -> {}
      [] body = "JOIN p.d.t2" -> {"p.d.t2"}
      [] body = "SELECT * FROM p.d.t1 a\nJOIN " \o BACKTICK \o "p.d.t1" \o BACKTICK \o " b" -> {"p.d.t1"}
      [] body = "-- FROM p.d.t3\nfrom p.d.t1 JOIN p.d.t2" -> {"p.d.t1", "p.d.t2"}

\* the display names, in catalog order, of the records that reference table t
ReferencingNames(records, t) ==
    LET refers(r) == t \in ReferencedTables(r.query)
        refs == SelectSeq(records, refers)
    IN  [i \in 1..Len(refs) |->
            IF refs[i].disabled THEN refs[i].displayName \o " (disabled)" ELSE refs[i].displayName]

\* C6: when the scheduled-query scan returns, the list of table t holds one entry for
\* each catalog record whose body references t, however often the body does: the
\* record's display name, with " (disabled)" appended iff the record is disabled.
C6_OneEntryPerRecord ==
    pc = "merge" =>
        \A t \in {"p.d.t1", "p.d.t2", "p.d.t3"} \cup DOMAIN sq_res :
            LET names == ReferencingNames(catalog, t)
            IN  IF names = <<>> THEN t \notin DOMAIN sq_res
                ELSE t \in DOMAIN sq_res /\ sq_res[t] = names

C6_Witness ==
    /\ pc = "merge"
    /\ Len(catalog) = 2
    /\ catalog[1].disabled /\ ~catalog[2].disabled
    /\ catalog[1].query = "SELECT * FROM p.d.t1 a\nJOIN " \o BACKTICK \o "p.d.t1" \o BACKTICK \o " b"
    /\ catalog[2].query = "-- FROM p.d.t3\nfrom p.d.t1 JOIN p.d.t2"
    /\ sq_res = ("p.d.t1" :> <<"job1 (disabled)", "job2">> @@ "p.d.t2" :> <<"job2">>)

\* the tables Python's extractors give for the files of FileKinds
FileTables(f) ==
    IF f.name \in {"query.sql", "load.bigquery"} /\ f.content = SqlContent THEN {"p.d.t1", "p.d.t3"}
    ELSE IF f.name = "settings.py" /\ f.content = ConfContent THEN {"p.d.t2"}
    ELSE {}

\* the top-level names, not excluded, with a file at any depth that gives table t
ProjectsOf(t) == {f.top : f \in {g \in Range(fs) : g.top \notin Range(ignore) /\ t \in FileTables(g)}}

\* C7: after the project scan each table maps to exactly the top-level names, not in
\* the exclusion list, that hold at any depth a .sql/.bigquery file or a settings.py
\* whose extraction includes the table; no name occurs twice, no excluded name occurs.
C7_ProjectsPerTable ==
    pc = "queries" =>
        /\ DOMAIN proj_res = {t \in {"p.d.t1", "p.d.t2", "p.d.t3"} : ProjectsOf(t) # {}}
        /\ \A t \in DOMAIN proj_res :
              /\ Range(proj_res[t]) = ProjectsOf(t)
              /\ Len(proj_res[t]) = Cardinality(ProjectsOf(t))
              /\ Range(proj_res[t]) \cap Range(ignore) = {}

C7_Witness ==
    /\ pc = "queries"
    /\ ignore = <<"venv">>
    /\ Len(fs) = 2
    /\ fs[1] = [top |-> "venv", dir |-> "", name |-> "query.sql", content |-> SqlContent]
    /\ fs[2] = [top |-> "proj1", dir |-> "src/etl", name |-> "load.bigquery", content |-> SqlContent]
    /\ proj_res = ("p.d.t1" :> <<"proj1">> @@ "p.d.t3" :> <<"proj1">>)

\* C9: when the credential reference is absent at startup the process exits with a
\* non-zero code before any work: whatever the flags, proj_res and sq_res are never
\* assigned, nothing is merged and no report is written.
C9_NoWorkWithoutCredentials ==
    cred \in {NONE, ""} =>
        /\ pc \in {"startup", "exited"}
        /\ args = NONE /\ proj_res = NONE /\ sq_res = NONE
        /\ total_dict = NONE /\ result_yaml = NONE
        /\ pc = "startup" => exit_code = NONE
        /\ pc = "exited" => exit_code = 1

C9_Witness ==
    /\ pc = "exited"
    /\ cred = NONE
    /\ exit_code = 1
    /\ fs # <<>> /\ catalog # <<>>
    /\ result_yaml = NONE
====
